---- MODULE Spec2Model ----
(***************************************************************************)
(* Model of the charge-scheduling decision pass of scheduler.py:           *)
(* optimize_vehicle_charge (the ordered rule chain and the commands it     *)
(* issues) and calc_schedule_limits (charge limit, departure time,         *)
(* off-peak end time and charge current).                                  *)
(*                                                                         *)
(* Units.  Instants are integers counting tenths of a minute since         *)
(* 2026-11-01T00:00:00Z (the day US daylight saving time ends), drive      *)
(* times are tenths of a minute and distances tenths of a mile, because    *)
(* get_directions rounds both to one decimal.  None is modelled by -1 for  *)
(* the nullable timestamps of the vehicle record.                          *)
(***************************************************************************)
EXTENDS Integers, Sequences, FiniteSets, TLC

VARIABLES
    vehicle,   \* vehicle["charge_state"], the record the pass reads and writes
    pre,       \* vehicle["charge_state"] as it was on entry to the pass
    events,    \* the calendar events handed to the pass
    df,        \* the grid forecast: sequence of [interval_start_utc, load_forecast]
    now,       \* the instant of the cycle
    systz,     \* the time zone of the host (naive datetimes are in it)
    cmds,      \* the calls made on the vehicle / the harness, in order
    rule,      \* the branch of the if/elif chain that ran (0: none yet)
    pc,        \* "ready", "done", "raised" or (the process) "exited"
    exc,       \* the exception that left the pass ("" when none)
    fails,     \* the vehicle calls that fail when made in this cycle
    cycle,     \* the number of the cycle (of the pass, when it is run again)
    prev       \* rule and cmds of the pass before this one

vars == <<vehicle, pre, events, df, now, systz, cmds, rule, pc, exc,
          fails, cycle, prev>>

----------------------------------------------------------------------------
(* Bounds of the model *)

MaxEvents == 3          \* longest calendar list explored
MaxDistanceSteps == 1300  \* route lengths explored: 0 .. MaxDistanceSteps * 161 m
MaxStartSteps == 2057   \* event starts explored: 24 h from now in steps of 42 s
MaxForecastLen == 6     \* longest forecast series explored
MaxCycles == 2          \* cycles of the periodic run explored
MaxAmps == 16           \* largest charge_current_request_max explored

----------------------------------------------------------------------------
(* Time *)

None == -1

TIME_ZONE == "America/New_York"

\* utcoffset of an instant in a zone, in tenths of a minute; at
\* 2026-11-01T06:00Z (instant 3600) America/New_York falls back from UTC-4
\* to UTC-5
UtcOffset(tz, t) ==
    IF tz = "UTC" THEN 0
    ELSE IF t < 3600 THEN 0 - 2400 ELSE 0 - 3000

\* datetime.astimezone(pytz.timezone(tz)) / datetime.fromtimestamp(ts, tz):
\* the wall clock reading of instant t in zone tz
astimezone(t, tz) == t + UtcOffset(tz, t)

\* datetime.datetime.fromtimestamp(ts) and datetime.datetime.now(): the naive
\* wall clock reading in the host's zone; naive readings compare by value
fromtimestamp(t, tz) == astimezone(t, tz)

\* .hour * 60 + .minute of a wall clock reading
MinuteOfDay(wall) == (wall % 14400) \div 10

\* hour * 60 + minute - minute % 15
QuantizedMinutes_Unquantized(wall) == MinuteOfDay(wall)

QuantizedMinutes(wall) ==
    MinuteOfDay(wall) - ((MinuteOfDay(wall) % 60) % 15)

----------------------------------------------------------------------------
(* get_directions *)

\* round(x / y) for naturals x, y > 0 (no tie occurs for the inputs used)
RoundDiv(x, y) == (2 * x + y) \div (2 * y)

\* A route is what gmaps.directions did: "ok" with the first leg's distance
\* in metres and duration in seconds, "raise" when the request raised, and
\* "empty" when the service returned an empty list of routes.
\* Result: [ok, distance, time]; ok = FALSE is the IndexError of
\* directions_result[0] leaving get_directions.
get_directions(route) ==
    IF route.kind = "raise" THEN [ok |-> TRUE, distance |-> 0, time |-> 0]
    ELSE IF route.kind = "empty" THEN [ok |-> FALSE, distance |-> 0, time |-> 0]
    ELSE [ok |-> TRUE,
          distance |-> RoundDiv(1000 * route.meters, 160934),
          time |-> RoundDiv(route.seconds, 6)]

----------------------------------------------------------------------------
(* Grid forecast statistics (pandas mean / std with ddof = 1), in exact     *)
(* integer arithmetic: with n points of sum S,                              *)
(*   load < mean - std   iff   S - n*load > 0  and                          *)
(*                             (n-1) * (S - n*load)^2 > SUM (n*x_i - S)^2   *)

RECURSIVE SumLoad(_, _)
SumLoad(f, i) == IF i = 0 THEN 0 ELSE f[i].load_forecast + SumLoad(f, i - 1)

RECURSIVE SumSqDev(_, _)
SumSqDev(f, i) ==
    IF i = 0 THEN 0
    ELSE LET d == Len(f) * f[i].load_forecast - SumLoad(f, Len(f))
         IN  d * d + SumSqDev(f, i - 1)

\* load < lower_std_load  (std is NaN for a single point: every test is False)
BelowLowerBand(f, load) ==
    LET n == Len(f)
        g == SumLoad(f, n) - n * load
    IN  /\ n >= 2
        /\ g > 0
        /\ (n - 1) * g * g > SumSqDev(f, n)

\* load >= lower_std_load
NotBelowLowerBand(f, load) == Len(f) >= 2 /\ ~BelowLowerBand(f, load)

AbsDiff(a, b) == IF a >= b THEN a - b ELSE b - a

\* (df["interval_start_utc"] - now).abs().idxmin(): first index of the minimum
NearestIndex(f, t) ==
    CHOOSE i \in 1..Len(f) :
        /\ \A j \in 1..Len(f) :
              AbsDiff(f[i].interval_start_utc, t) <= AbsDiff(f[j].interval_start_utc, t)
        /\ \A j \in 1..(i - 1) :
              AbsDiff(f[j].interval_start_utc, t) > AbsDiff(f[i].interval_start_utc, t)

\* current_load <= mean_load
CurrentLoadAtMostMean(f, t) ==
    Len(f) * f[NearestIndex(f, t)].load_forecast <= SumLoad(f, Len(f))

\* rows kept by the filter of lines 743-751: below the band, the next row not
\* below it (the last row has no next row: shift(-1) is NaN), and not before now
OffPeakCandidates_PastAllowed(f, t) ==
    { i \in 1..Len(f) :
        /\ i < Len(f)
        /\ BelowLowerBand(f, f[i].load_forecast)
        /\ NotBelowLowerBand(f, f[i + 1].load_forecast) }

OffPeakCandidates(f, t) ==
    { i \in 1..Len(f) :
        /\ i < Len(f)
        /\ BelowLowerBand(f, f[i].load_forecast)
        /\ NotBelowLowerBand(f, f[i + 1].load_forecast)
        /\ f[i].interval_start_utc - t >= 0 }

\* filtered_df[...].idxmin(): first row of the least difference
OffPeakIndex(f, t) ==
    CHOOSE i \in OffPeakCandidates(f, t) :
        /\ \A j \in OffPeakCandidates(f, t) :
              f[i].interval_start_utc <= f[j].interval_start_utc
        /\ \A j \in OffPeakCandidates(f, t) :
              j < i => f[j].interval_start_utc > f[i].interval_start_utc

----------------------------------------------------------------------------
(* The calendar events loop of calc_schedule_limits *)

HttpLocations == {"https://meet.example/abc"}
NoLocation == "<no location key>"

\* "location" in event and "http" not in event["location"]
HasUsableLocation(event) ==
    event.location # NoLocation /\ event.location \notin HttpLocations

\* State of the loop after the first i events: ok (no exception so far), the
\* events with distance / time filled in, the indices of valid_events in
\* order, longest_distance and the index of farthest_event (0: unbound).
RECURSIVE EventsLoop(_, _)
EventsLoop(evs, i) ==
    IF i = 0
    THEN [ok |-> TRUE, events |-> evs, valid_events |-> <<>>,
          longest_distance |-> 0 - 10, farthest_event |-> 0]
    ELSE LET s == EventsLoop(evs, i - 1)
             d == get_directions(evs[i].route)
             e == [evs[i] EXCEPT !.distance = d.distance, !.time = d.time]
         IN  IF ~s.ok \/ ~HasUsableLocation(evs[i]) THEN s
             ELSE IF ~d.ok THEN [s EXCEPT !.ok = FALSE]
             ELSE IF ~(d.time > 150) THEN [s EXCEPT !.events[i] = e]
             ELSE IF d.distance > s.longest_distance
                  THEN [s EXCEPT !.events[i] = e,
                                 !.valid_events = Append(@, i),
                                 !.longest_distance = d.distance,
                                 !.farthest_event = i]
                  ELSE [s EXCEPT !.events[i] = e,
                                 !.valid_events = Append(@, i)]

\* lines 705-713: charge_limit_soc from longest_distance (tenths of a mile);
\* int() truncates, and the value is positive
ChargeLimitSoc_Rounded(longest_distance) ==
    IF longest_distance >= 1200 THEN 94
    ELSE IF longest_distance > 0
         THEN RoundDiv(longest_distance * (95 - 75), 1200) + 75
         ELSE 75

ChargeLimitSoc_Uncapped(longest_distance) ==
    IF longest_distance > 0
    THEN (longest_distance * (95 - 75)) \div 1200 + 75
    ELSE 75

ChargeLimitSoc(longest_distance) ==
    IF longest_distance >= 1200 THEN 94
    ELSE IF longest_distance > 0
         THEN (longest_distance * (95 - 75)) \div 1200 + 75
         ELSE 75

\* start - timedelta(minutes = time + 30)
EventDepartureTime(event) == event.start - (event.time + 300)

\* lines 716-740: scheduled_departure_time_minutes
Min2(a, b) == IF a <= b THEN a ELSE b

DepartureTime(loop) ==
    Min2(EventDepartureTime(loop.events[loop.valid_events[1]]),
         EventDepartureTime(loop.events[loop.farthest_event]))

ScheduledDepartureTimeMinutes(loop) ==
    IF Len(loop.valid_events) > 0
    THEN LET m == QuantizedMinutes(astimezone(DepartureTime(loop), TIME_ZONE))
         IN  IF m < 600 THEN m ELSE 600
    ELSE 480

\* lines 759-801: charge_current_request (cs is the charge state, off_peak the
\* off-peak end instant); called only when scheduled_departure_time can be read
ChargeCurrentRequest_Unbounded(cs, f, t, off_peak) ==
    IF cs.charging_state = "Charging"
    THEN IF t + cs.time_to_full_charge > cs.scheduled_departure_time
         THEN cs.charge_current_request + 1
         ELSE IF /\ t + cs.time_to_full_charge < off_peak
                 /\ cs.charge_current_request > 5
              THEN cs.charge_current_request - 1
              ELSE cs.charge_current_request
    ELSE IF cs.charge_current_request_max > 12 /\ CurrentLoadAtMostMean(f, t)
         THEN cs.charge_current_request_max \div 2
         ELSE cs.charge_current_request_max

ChargeCurrentRequest_Rounded(cs, f, t, off_peak) ==
    IF cs.charging_state = "Charging"
    THEN IF /\ t + cs.time_to_full_charge > cs.scheduled_departure_time
            /\ cs.charge_current_request < cs.charge_current_request_max
         THEN cs.charge_current_request + 1
         ELSE IF /\ t + cs.time_to_full_charge < off_peak
                 /\ cs.charge_current_request > 5
              THEN cs.charge_current_request - 1
              ELSE cs.charge_current_request
    ELSE IF cs.charge_current_request_max > 12 /\ CurrentLoadAtMostMean(f, t)
         THEN (cs.charge_current_request_max + 1) \div 2
         ELSE cs.charge_current_request_max

ChargeCurrentRequest_DecrementFirst(cs, f, t, off_peak) ==
    IF cs.charging_state = "Charging"
    THEN IF /\ t + cs.time_to_full_charge < off_peak
            /\ cs.charge_current_request > 5
         THEN cs.charge_current_request - 1
         ELSE IF /\ t + cs.time_to_full_charge > cs.scheduled_departure_time
                 /\ cs.charge_current_request < cs.charge_current_request_max
              THEN cs.charge_current_request + 1
              ELSE cs.charge_current_request
    ELSE IF cs.charge_current_request_max > 12 /\ CurrentLoadAtMostMean(f, t)
         THEN cs.charge_current_request_max \div 2
         ELSE cs.charge_current_request_max

ChargeCurrentRequest(cs, f, t, off_peak) ==
    IF cs.charging_state = "Charging"
    THEN IF /\ t + cs.time_to_full_charge > cs.scheduled_departure_time
            /\ cs.charge_current_request < cs.charge_current_request_max
         THEN cs.charge_current_request + 1
         ELSE IF /\ t + cs.time_to_full_charge < off_peak
                 /\ cs.charge_current_request > 5
              THEN cs.charge_current_request - 1
              ELSE cs.charge_current_request
    ELSE IF cs.charge_current_request_max > 12 /\ CurrentLoadAtMostMean(f, t)
         THEN cs.charge_current_request_max \div 2
         ELSE cs.charge_current_request_max

\* calc_schedule_limits(df, vehicle, events): the charge state and the events
\* it leaves, and the exception that ended it ("" when it returned):
\*   IndexError  get_directions indexing an empty list of routes (line 391)
\*   ValueError  idxmin of an empty selection (line 751)
\*   TypeError   fromtimestamp(None) while Charging (line 764)
calc_schedule_limits_SilentDefault(f, cs, evs, t) ==
    LET loop == EventsLoop(evs, Len(evs))
        cs1  == [cs EXCEPT !.charge_limit_soc = ChargeLimitSoc(loop.longest_distance),
                           !.scheduled_departure_time_minutes =
                                ScheduledDepartureTimeMinutes(loop)]
        off_peak == IF OffPeakCandidates(f, t) = {} THEN t
                    ELSE f[OffPeakIndex(f, t)].interval_start_utc
        cs2  == [cs1 EXCEPT !.off_peak_hours_end_time =
                                QuantizedMinutes(astimezone(off_peak, TIME_ZONE))]
        cs3  == [cs2 EXCEPT !.charge_current_request =
                                ChargeCurrentRequest(cs2, f, t, off_peak)]
    IN  IF ~loop.ok
        THEN [exc |-> "IndexError", vehicle |-> cs, events |-> loop.events]
        ELSE IF cs.charging_state = "Charging" /\ cs.scheduled_departure_time = None
        THEN [exc |-> "TypeError", vehicle |-> cs2, events |-> loop.events]
        ELSE [exc |-> "", vehicle |-> cs3, events |-> loop.events]

calc_schedule_limits(f, cs, evs, t) ==
    LET loop == EventsLoop(evs, Len(evs))
        cs1  == [cs EXCEPT !.charge_limit_soc = ChargeLimitSoc(loop.longest_distance),
                           !.scheduled_departure_time_minutes =
                                ScheduledDepartureTimeMinutes(loop)]
        off_peak == f[OffPeakIndex(f, t)].interval_start_utc
        cs2  == [cs1 EXCEPT !.off_peak_hours_end_time =
                                QuantizedMinutes(astimezone(off_peak, TIME_ZONE))]
        cs3  == [cs2 EXCEPT !.charge_current_request =
                                ChargeCurrentRequest(cs2, f, t, off_peak)]
    IN  IF ~loop.ok
        THEN [exc |-> "IndexError", vehicle |-> cs, events |-> loop.events]
        ELSE IF OffPeakCandidates(f, t) = {}
        THEN [exc |-> "ValueError", vehicle |-> cs1, events |-> loop.events]
        ELSE IF cs.charging_state = "Charging" /\ cs.scheduled_departure_time = None
        THEN [exc |-> "TypeError", vehicle |-> cs2, events |-> loop.events]
        ELSE [exc |-> "", vehicle |-> cs3, events |-> loop.events]

----------------------------------------------------------------------------
(* optimize_vehicle_charge *)

\* lines 825-835: the branch that holds off every action (0: none of them)
NoActionGate_NoPowerIgnored(cs) ==
    IF cs.charge_port_door_open # TRUE \/ cs.conn_charge_cable = "<invalid>" THEN 1
    ELSE IF cs.fast_charger_present = TRUE THEN 2
    ELSE 0

NoActionGate(cs) ==
    IF cs.charge_port_door_open # TRUE \/ cs.conn_charge_cable = "<invalid>" THEN 1
    ELSE IF cs.fast_charger_present = TRUE THEN 2
    ELSE IF cs.charging_state = "NoPower" THEN 3
    ELSE 0

\* lines 837-864 and 866-893: the nested branches under "limit >= 95" (first
\* = 4) and under "battery < 20" (first = 7)
FullPowerBranch_AlwaysResend(cs, first) ==
    IF cs.charging_state # "Charging" THEN first ELSE first + 1

FullPowerBranch(cs, first) ==
    IF cs.charging_state # "Charging" THEN first
    ELSE IF cs.charge_current_request # cs.charge_current_request_max THEN first + 1
    ELSE first + 2

\* the branch of the if / elif chain of lines 825-923 that runs, numbered in
\* the order of the chain
Branch(cs, t, tz) ==
    IF NoActionGate(cs) # 0 THEN NoActionGate(cs)
    ELSE IF cs.charge_limit_soc >= 95 THEN FullPowerBranch(cs, 4)
    ELSE IF cs.battery_level < 20 THEN FullPowerBranch(cs, 7)
    ELSE IF /\ cs.battery_level >= 20
            /\ cs.charging_state = "Charging"
            /\ cs.scheduled_charging_start_time \notin {None, 0}
            /\ fromtimestamp(cs.scheduled_charging_start_time, tz) > fromtimestamp(t, tz)
         THEN 10
    ELSE IF cs.scheduled_charging_mode = "DepartBy" /\ cs.off_peak_charging_enabled = TRUE
         THEN 11
    ELSE 12

\* the calls of the helper functions, as entries of cmds
Cmd(name, args) == [name |-> name, args |-> args]

wake_up == Cmd("wake_up", <<>>)
set_charge_current(cs) == Cmd("CHARGING_AMPS", <<cs.charge_current_request>>)
set_charge_limit(cs) == Cmd("CHANGE_CHARGE_LIMIT", <<cs.charge_limit_soc>>)
set_start_charging == Cmd("START_CHARGE", <<>>)
set_stop_charging == Cmd("STOP_CHARGE", <<>>)
set_schedule(cs) ==
    Cmd("SCHEDULED_DEPARTURE",
        <<cs.scheduled_departure_time_minutes, cs.off_peak_hours_end_time>>)

\* lines 925-929: time.sleep(5), then get_vehicle_status
Settle_NoDelay == <<Cmd("get_vehicle_status", <<>>)>>

Settle == <<Cmd("sleep", <<5>>), Cmd("get_vehicle_status", <<>>)>>

\* the helper functions that catch what their call raises: wake_up (line 517),
\* set_charge_current (544-547), set_charge_limit (570-574),
\* set_start_charging (595), set_stop_charging (617), set_schedule (655);
\* get_vehicle_status catches the VehicleError of vehicle_list (479-481)
Catches_NotWakeUp(name) ==
    name \in {"CHARGING_AMPS", "CHANGE_CHARGE_LIMIT", "START_CHARGE",
              "STOP_CHARGE", "SCHEDULED_DEPARTURE", "get_vehicle_status"}

Catches(name) ==
    name \in {"wake_up", "CHARGING_AMPS", "CHANGE_CHARGE_LIMIT", "START_CHARGE",
              "STOP_CHARGE", "SCHEDULED_DEPARTURE", "get_vehicle_status"}

\* the calls of seq made one after the other while the calls in fl fail: a
\* failure that is caught is printed and the next call follows; one that is
\* not caught leaves the pass
RECURSIVE Issue(_, _, _)
Issue(seq, i, fl) ==
    IF i = 0 THEN [cmds |-> <<>>, exc |-> ""]
    ELSE LET r == Issue(seq, i - 1, fl)
         IN  IF r.exc # "" THEN r
             ELSE IF seq[i].name \in fl /\ ~Catches(seq[i].name)
                  THEN [cmds |-> Append(r.cmds, seq[i]), exc |-> "VehicleError"]
                  ELSE [r EXCEPT !.cmds = Append(@, seq[i])]

\* vehicle is None: get_vehicle_status returned (None, None)
NoVehicle == [charge_state |-> "None"]

\* lines 841-843, 855-857, 870-872, 884-886
FullPower_Unset(cs) == cs

FullPower(cs) ==
    [cs EXCEPT !.charge_current_request = cs.charge_current_request_max]

\* the calls of one branch, followed by lines 925-929
Act_WakeUpLast(calls) ==
    LET late == Tail(calls) \o <<Head(calls)>>
        r == Issue(late \o Settle, Len(late \o Settle), fails)
    IN  /\ cmds' = cmds \o r.cmds
        /\ exc' = r.exc
        /\ pc' = IF r.exc = "" THEN "done" ELSE "raised"

Act(calls) ==
    LET r == Issue(calls \o Settle, Len(calls \o Settle), fails)
    IN  /\ cmds' = cmds \o r.cmds
        /\ exc' = r.exc
        /\ pc' = IF r.exc = "" THEN "done" ELSE "raised"

\* One pass of optimize_vehicle_charge over the record in vehicle.  With
\* vehicle None, line 826 raises TypeError.
optimize_vehicle_charge ==
    /\ pc = "ready"
    /\ IF vehicle = NoVehicle
       THEN /\ rule' = 0
            /\ pc' = "raised" /\ exc' = "TypeError"
            /\ UNCHANGED <<vehicle, events, cmds>>
       ELSE
       LET b == Branch(vehicle, now, systz)
           c == calc_schedule_limits(df, vehicle, events, now)
       IN  /\ rule' = b
           /\ IF b \in {4, 7}
              THEN /\ vehicle' = FullPower(vehicle)
                   /\ Act(<<wake_up, set_charge_current(FullPower(vehicle)),
                            set_start_charging>>)
                   /\ UNCHANGED events
              ELSE IF b \in {5, 8}
              THEN /\ vehicle' = FullPower(vehicle)
                   /\ Act(<<wake_up, set_charge_current(FullPower(vehicle))>>)
                   /\ UNCHANGED events
              ELSE IF b = 10
              THEN /\ Act(<<wake_up, set_stop_charging>>)
                   /\ UNCHANGED <<vehicle, events>>
              ELSE IF b = 11
              THEN /\ vehicle' = c.vehicle
                   /\ events' = c.events
                   /\ IF c.exc = ""
                      THEN Act(<<wake_up, set_charge_current(c.vehicle),
                                 set_charge_limit(c.vehicle),
                                 set_schedule(c.vehicle)>>)
                      ELSE /\ UNCHANGED cmds
                           /\ exc' = c.exc
                           /\ pc' = "raised"
              ELSE /\ UNCHANGED <<vehicle, events, cmds>>
                   /\ pc' = "done" /\ exc' = ""
    /\ UNCHANGED <<pre, df, now, systz, fails, cycle, prev>>

Next == optimize_vehicle_charge

----------------------------------------------------------------------------
(* Inputs *)

ChargingStates == {"Disconnected", "NoPower", "Charging", "Complete", "Stopped"}
ChargingModes == {"Off", "DepartBy", "StartAt"}

\* 01:50 EDT and, half an hour later, 01:20 EST
Nows == {3500, 3800}

\* the host runs in UTC or in the zone of the vehicle
SysZones == {"UTC", "America/New_York"}

\* hourly forecast rows from 04:00Z
Forecast(loads) ==
    [i \in 1..Len(loads) |->
        [interval_start_utc |-> 2400 + (i - 1) * 600,
         load_forecast |-> loads[i]]]

\* the load rises through the lower band at 07:00Z (after both Nows) ...
ForecastAhead == Forecast(<<30, 30, 30, 10, 30>>)
\* ... or only at 05:00Z (before both Nows)
ForecastBehind == Forecast(<<30, 10, 30, 30, 30>>)

\* charge states explored by the rule chain
CurrentPairs == {<<5, 12>>, <<12, 12>>, <<6, 15>>, <<15, 15>>}

RuleVehicles ==
    { [charge_port_door_open |-> door, conn_charge_cable |-> cable,
       fast_charger_present |-> fast, charging_state |-> st,
       charge_limit_soc |-> lim, battery_level |-> bat,
       charge_current_request |-> cur[1], charge_current_request_max |-> cur[2],
       scheduled_charging_start_time |-> sst, scheduled_charging_mode |-> mode,
       off_peak_charging_enabled |-> off, scheduled_departure_time |-> sdt,
       time_to_full_charge |-> 300,
       scheduled_departure_time_minutes |-> 480, off_peak_hours_end_time |-> 360] :
      door \in BOOLEAN, cable \in {"<invalid>", "IEC"}, fast \in BOOLEAN,
      st \in ChargingStates, lim \in {80, 94, 95}, bat \in {19, 20},
      cur \in CurrentPairs, sst \in {None, 3400, 3700, 4300},
      mode \in ChargingModes, off \in BOOLEAN, sdt \in {None, 3700} }

\* a charge state that reaches the optimizing branch
OptimizeVehicle(st, sdt, ttf) ==
    [charge_port_door_open |-> TRUE, conn_charge_cable |-> "IEC",
     fast_charger_present |-> FALSE, charging_state |-> st,
     charge_limit_soc |-> 80, battery_level |-> 50,
     charge_current_request |-> 6, charge_current_request_max |-> 15,
     scheduled_charging_start_time |-> None, scheduled_charging_mode |-> "DepartBy",
     off_peak_charging_enabled |-> TRUE, scheduled_departure_time |-> sdt,
     time_to_full_charge |-> ttf,
     scheduled_departure_time_minutes |-> 480, off_peak_hours_end_time |-> 360]

\* calendar events
Event(location, route, start) ==
    [location |-> location, route |-> route, start |-> start,
     distance |-> None, time |-> None]

Route(meters, seconds) == [kind |-> "ok", meters |-> meters, seconds |-> seconds]
RouteRaise == [kind |-> "raise", meters |-> 0, seconds |-> 0]
RouteEmpty == [kind |-> "empty", meters |-> 0, seconds |-> 0]

Address == "1 Main St"

\* 10 mi in 20.5 min, 50 mi in 120 min, 100 mi in 100 min
RouteShort == Route(16093, 1230)
RouteMid == Route(80467, 7200)
RouteFar == Route(160934, 6000)

\* the calendar returns events ordered by start time (orderBy = "startTime")
Ordered(evs) == \A i \in 1..(Len(evs) - 1) : evs[i].start <= evs[i + 1].start

SeqsUpTo(S, n) == UNION { [1..k -> S] : k \in 0..n }

NoPrev == [rule |-> 0, cmds |-> <<>>, failed |-> FALSE]

\* what a pass leaves for the next one to be compared with: its rule, its
\* calls, and whether one of the calls failed
PassRecord ==
    [rule |-> rule, cmds |-> cmds,
     failed |-> \E i \in 1..Len(cmds) : cmds[i].name \in fails]

\* the first pass is about to run on the record just read
InitPass ==
    /\ cmds = <<>>
    /\ rule = 0
    /\ pc = "ready"
    /\ exc = ""
    /\ pre = vehicle
    /\ cycle = 1
    /\ prev = NoPrev

Init0 ==
    /\ InitPass
    /\ fails = {}

\* Spec: the rule chain over many charge states
Init ==
    /\ vehicle \in RuleVehicles
    /\ events = <<Event(Address, RouteMid, 9000)>>
    /\ df \in {ForecastAhead, ForecastBehind}
    /\ now \in Nows
    /\ systz \in SysZones
    /\ Init0

Spec == Init /\ [][Next]_vars

\* SpecTravel: the optimizing branch over many calendars
TravelStarts == {8470, 9000, 12000}
TravelEvents ==
    { Event(Address, r, s) :
        r \in {RouteRaise, RouteEmpty, RouteShort, RouteMid, RouteFar},
        s \in TravelStarts }
    \cup { Event(NoLocation, RouteFar, 8470),
           Event("https://meet.example/abc", RouteFar, 8470) }

InitTravel ==
    /\ vehicle \in { OptimizeVehicle("Stopped", None, 300),
                     OptimizeVehicle("Charging", 3700, 300) }
    /\ events \in { evs \in SeqsUpTo(TravelEvents, MaxEvents) : Ordered(evs) }
    /\ df = ForecastAhead
    /\ now = 3500
    /\ systz = "UTC"
    /\ Init0

SpecTravel == InitTravel /\ [][Next]_vars

\* SpecLimit: one event at every distance up to MaxDistanceSteps * 161 m
\* (161 m is a tenth of a mile), alone or next to a second event
InitLimit ==
    /\ vehicle = OptimizeVehicle("Stopped", None, 300)
    /\ \E k \in 0..MaxDistanceSteps :
         \E other \in { <<>>, <<Event(Address, RouteMid, 9000)>>,
                        <<Event(Address, RouteRaise, 9000)>> } :
            events = <<Event(Address, Route(k * 161, 1230), 9000)>> \o other
    /\ df = ForecastAhead
    /\ now = 3500
    /\ systz = "UTC"
    /\ Init0

SpecLimit == InitLimit /\ [][Next]_vars

\* SpecDeparture: one event at every start of the coming 24 hours, with a
\* drive of 20.5 min (relevant) or of 10 min (not relevant)
InitDeparture ==
    /\ vehicle = OptimizeVehicle("Stopped", None, 300)
    /\ \E k \in 0..MaxStartSteps :
         \E r \in {RouteShort, Route(8047, 600)} :
            events = <<Event(Address, r, 3500 + 7 * k)>>
    /\ df = ForecastAhead
    /\ now = 3500
    /\ systz = "UTC"
    /\ Init0

SpecDeparture == InitDeparture /\ [][Next]_vars

\* SpecForecast: the optimizing branch over every forecast series of up to
\* MaxForecastLen rows with loads of 10, 20 or 30, one row every 16 minutes
\* from 06:01Z, read before, among and after the rows
ForecastAt(start, step, loads) ==
    [i \in 1..Len(loads) |->
        [interval_start_utc |-> start + (i - 1) * step,
         load_forecast |-> loads[i]]]

ForecastLoads == {10, 20, 30}
ForecastNows == {3500, 3770, 3800, 4500}

InitForecast ==
    /\ vehicle \in { OptimizeVehicle("Stopped", None, 300),
                     OptimizeVehicle("Charging", 3700, 300) }
    /\ events = <<Event(Address, RouteMid, 9000)>>
    /\ \E k \in 1..MaxForecastLen :
         \E loads \in [1..k -> ForecastLoads] :
            df = ForecastAt(3610, 160, loads)
    /\ now \in ForecastNows
    /\ systz = "UTC"
    /\ Init0

SpecForecast == InitForecast /\ [][Next]_vars

\* SpecCurrent: the optimizing branch over circuits of 11 to MaxAmps amperes,
\* with the load at now at, above or below the mean, one event 130 miles away
CurrentVehicle(st, cur, max, sdt, ttf) ==
    [OptimizeVehicle(st, sdt, ttf) EXCEPT !.charge_current_request = cur,
                                          !.charge_current_request_max = max]

\* 130 mi in 150 min
Route130 == Route(209214, 9000)

\* the load at 06:00Z is the mean, above it, below it; in each the load rises
\* through the lower band at 07:00Z
ForecastAtMean == Forecast(<<20, 20, 20, 5, 35>>)
ForecastBelowMean == Forecast(<<30, 30, 20, 5, 35>>)

InitCurrent ==
    /\ \E max \in 11..MaxAmps :
         \E cur \in {5, 6, max - 1, max} :
            \E st \in {"Stopped", "Complete", "Charging"} :
               \E sdt \in {3700, 3800, 4600} :
                  \E ttf \in {100, 300, 700, 900} :
                     vehicle = CurrentVehicle(st, cur, max, sdt, ttf)
    /\ events = <<Event(Address, Route130, 9000)>>
    /\ df \in {ForecastAtMean, ForecastAhead, ForecastBelowMean}
    /\ now = 3500
    /\ systz = "UTC"
    /\ Init0

SpecCurrent == InitCurrent /\ [][Next]_vars

\* SpecRun: the periodic run, a cycle every Interval
Interval == 300

RunVehicles ==
    { [OptimizeVehicle(st, sdt, 300) EXCEPT
            !.charge_limit_soc = lb[1], !.battery_level = lb[2],
            !.charge_current_request = cur,
            !.scheduled_charging_start_time = sst,
            !.scheduled_charging_mode = mo[1],
            !.off_peak_charging_enabled = mo[2]] :
        st \in {"Stopped", "Charging"}, sdt \in {None, 3700},
        lb \in {<<80, 50>>, <<95, 50>>, <<80, 19>>}, cur \in {6, 14, 15},
        sst \in {None, 4300}, mo \in {<<"DepartBy", TRUE>>, <<"Off", FALSE>>} }

RunEvents == <<Event(Address, RouteMid, 9000)>>
RunForecasts == {ForecastAhead, ForecastBehind}
FailSets ==
    { {}, {"wake_up"}, {"CHARGING_AMPS"},
      {"wake_up", "CHARGING_AMPS", "CHANGE_CHARGE_LIMIT", "START_CHARGE",
       "STOP_CHARGE", "SCHEDULED_DEPARTURE"} }

\* lines 943-946 and 962-969: the next scheduled run of main reads the
\* forecast, the vehicle (None when the list cannot be had) and the calendar
\* again, and runs the pass on them
main ==
    /\ pc = "done"
    /\ cycle < MaxCycles
    /\ cycle' = cycle + 1
    /\ vehicle' \in RunVehicles \cup {NoVehicle, vehicle, pre}
    /\ pre' = vehicle'
    /\ events' = RunEvents
    /\ df' \in RunForecasts
    /\ now' = now + Interval
    /\ fails' \in FailSets
    /\ cmds' = <<>>
    /\ rule' = 0
    /\ pc' = "ready"
    /\ exc' = ""
    /\ prev' = PassRecord
    /\ UNCHANGED systz

\* lines 944-946, 969 and 990-993: nothing between the pass and the top of
\* the program catches; the exception ends the process
uncaught ==
    /\ pc = "raised"
    /\ pc' = "exited"
    /\ UNCHANGED <<vehicle, pre, events, df, now, systz, cmds, rule, exc,
                   fails, cycle, prev>>

NextRun == optimize_vehicle_charge \/ main \/ uncaught

InitRun ==
    /\ vehicle \in RunVehicles \cup {NoVehicle}
    /\ events = RunEvents
    /\ df \in RunForecasts
    /\ now = 3500
    /\ systz = "UTC"
    /\ fails \in FailSets
    /\ InitPass

SpecRun == InitRun /\ [][NextRun]_vars

\* SpecTwice: the pass run again on the record, the forecast, the events and
\* the instant of the pass before, nothing read in between
second_pass ==
    /\ pc = "done"
    /\ cycle < 2
    /\ cycle' = cycle + 1
    /\ pre' = vehicle
    /\ cmds' = <<>>
    /\ rule' = 0
    /\ pc' = "ready"
    /\ exc' = ""
    /\ prev' = PassRecord
    /\ UNCHANGED <<vehicle, events, df, now, systz, fails>>

NextTwice == optimize_vehicle_charge \/ second_pass

InitTwice ==
    /\ vehicle \in RunVehicles
    /\ events = RunEvents
    /\ df \in {ForecastAhead, ForecastAtMean}
    /\ now = 3500
    /\ systz = "UTC"
    /\ Init0

SpecTwice == InitTwice /\ [][NextTwice]_vars

----------------------------------------------------------------------------
TypeOK ==
    /\ pc \in {"ready", "done", "raised", "exited"}
    /\ rule \in 0..12
    /\ exc \in {"", "IndexError", "ValueError", "TypeError", "VehicleError"}
    /\ cycle \in 1..(MaxCycles + 1)
    /\ fails \subseteq {"wake_up", "CHARGING_AMPS", "CHANGE_CHARGE_LIMIT",
                        "START_CHARGE", "STOP_CHARGE", "SCHEDULED_DEPARTURE"}

----------------------------------------------------------------------------
(* The rule table of the decision engine, as the claims state it *)

PluggedIn(cs) ==
    cs.charge_port_door_open = TRUE /\ cs.conn_charge_cable # "<invalid>"

\* rules 1-3 hold off every action
HeldOff(cs) ==
    ~PluggedIn(cs) \/ cs.fast_charger_present = TRUE \/ cs.charging_state = "NoPower"

\* the scheduled start is set and lies after the instant t
StartsInFuture(cs, t) ==
    cs.scheduled_charging_start_time # None /\ cs.scheduled_charging_start_time > t

\* the condition of rule k of the table, taken alone
TableCond(k, cs, t) ==
    CASE k = 1 -> ~PluggedIn(cs)
      [] k = 2 -> cs.fast_charger_present = TRUE
      [] k = 3 -> cs.charging_state = "NoPower"
      [] k = 4 -> cs.charge_limit_soc >= 95 /\ cs.charging_state # "Charging"
      [] k = 5 -> /\ cs.charge_limit_soc >= 95 /\ cs.charging_state = "Charging"
                  /\ cs.charge_current_request < cs.charge_current_request_max
      [] k = 6 -> /\ cs.charge_limit_soc >= 95 /\ cs.charging_state = "Charging"
                  /\ cs.charge_current_request = cs.charge_current_request_max
      [] k = 7 -> cs.battery_level < 20 /\ cs.charging_state # "Charging"
      [] k = 8 -> /\ cs.battery_level < 20 /\ cs.charging_state = "Charging"
                  /\ cs.charge_current_request < cs.charge_current_request_max
      [] k = 9 -> /\ cs.battery_level < 20 /\ cs.charging_state = "Charging"
                  /\ cs.charge_current_request = cs.charge_current_request_max
      [] k = 10 -> /\ cs.battery_level >= 20 /\ cs.charging_state = "Charging"
                   /\ StartsInFuture(cs, t)
      [] k = 11 -> /\ cs.scheduled_charging_mode = "DepartBy"
                   /\ cs.off_peak_charging_enabled = TRUE
      [] OTHER -> TRUE

\* the lowest-numbered rule of the table whose condition holds
TableRule(cs, t) ==
    CHOOSE k \in 1..12 :
        TableCond(k, cs, t) /\ \A j \in 1..(k - 1) : ~TableCond(j, cs, t)

CmdNames(c) == [i \in 1..Len(c) |-> c[i].name]

\* the calls that belong to rule k
TableCmdNames(k) ==
    IF k \in {4, 7}
    THEN <<"wake_up", "CHARGING_AMPS", "START_CHARGE", "sleep", "get_vehicle_status">>
    ELSE IF k \in {5, 8}
    THEN <<"wake_up", "CHARGING_AMPS", "sleep", "get_vehicle_status">>
    ELSE IF k = 10
    THEN <<"wake_up", "STOP_CHARGE", "sleep", "get_vehicle_status">>
    ELSE IF k = 11
    THEN <<"wake_up", "CHARGING_AMPS", "CHANGE_CHARGE_LIMIT", "SCHEDULED_DEPARTURE",
           "sleep", "get_vehicle_status">>
    ELSE <<>>

Issued(name) == \E i \in 1..Len(cmds) : cmds[i].name = name

Ran == pc # "ready"

\* C1: in every cycle the branch that runs is the lowest-numbered rule of the
\* table whose condition holds for the state the cycle was given, and the
\* calls made are those of that rule and of no other (none at all when the
\* optimizing computation raised).
C1_RulePriority ==
    Ran =>
        /\ rule = TableRule(pre, now)
        /\ \/ CmdNames(cmds) = TableCmdNames(rule)
           \/ rule = 11 /\ pc = "raised" /\ cmds = <<>>

\* C2: when the vehicle is not plugged in, or a fast charger is present, or
\* there is no power, the cycle makes no call at all (no wake-up, no command,
\* no re-read of the vehicle) and leaves the record as it was, whatever the
\* other fields are.
C2_HeldOffIsNoOp ==
    Ran /\ HeldOff(pre) =>
        /\ pc = "done"
        /\ rule \in {1, 2, 3}
        /\ cmds = <<>>
        /\ vehicle = pre

C2_Witness ==
    /\ pc = "done"
    /\ PluggedIn(pre) /\ pre.fast_charger_present = FALSE
    /\ pre.charging_state = "NoPower"
    /\ pre.charge_limit_soc >= 95 /\ pre.battery_level < 20
    /\ pre.scheduled_charging_mode = "DepartBy" /\ pre.off_peak_charging_enabled
    /\ cmds = <<>>

\* the state asks for full power: limit >= 95, or limit < 95 and battery < 20
WantsFullPower(cs) ==
    \/ cs.charge_limit_soc >= 95
    \/ cs.charge_limit_soc < 95 /\ cs.battery_level < 20

\* C3: a plugged-in vehicle with power, not fast charging and not Charging,
\* that asks for full power is started: the requested current becomes the
\* maximum, and after the wake-up a set-current command carrying the maximum
\* and a start-charge command are issued.
C3_StartAtFullPower ==
    Ran /\ ~HeldOff(pre) /\ WantsFullPower(pre) /\ pre.charging_state # "Charging" =>
        /\ pc = "done"
        /\ vehicle.charge_current_request = pre.charge_current_request_max
        /\ cmds = <<Cmd("wake_up", <<>>),
                    Cmd("CHARGING_AMPS", <<pre.charge_current_request_max>>),
                    Cmd("START_CHARGE", <<>>)>> \o Settle

C3_Witness ==
    /\ pc = "done"
    /\ ~HeldOff(pre)
    /\ pre.charge_limit_soc < 95 /\ pre.battery_level < 20
    /\ pre.charging_state = "Stopped"
    /\ pre.charge_current_request < pre.charge_current_request_max
    /\ Issued("START_CHARGE")

\* C4: a plugged-in vehicle with power that is Charging and asks for full
\* power gets, when its requested current is below the maximum, a set-current
\* command carrying the maximum and neither a start nor a stop; when the
\* requested current is the maximum, nothing is issued, nothing is re-read
\* and the record is left as it was.
C4_ChargingAtFullPower ==
    Ran /\ ~HeldOff(pre) /\ WantsFullPower(pre) /\ pre.charging_state = "Charging" =>
        /\ pc = "done"
        /\ pre.charge_current_request < pre.charge_current_request_max =>
              /\ vehicle.charge_current_request = pre.charge_current_request_max
              /\ cmds = <<Cmd("wake_up", <<>>),
                          Cmd("CHARGING_AMPS", <<pre.charge_current_request_max>>)>>
                        \o Settle
        /\ pre.charge_current_request = pre.charge_current_request_max =>
              /\ cmds = <<>>
              /\ vehicle = pre

C4_Witness ==
    /\ pc = "done"
    /\ ~HeldOff(pre)
    /\ pre.charge_limit_soc < 95 /\ pre.battery_level < 20
    /\ pre.charging_state = "Charging"
    /\ pre.charge_current_request = pre.charge_current_request_max
    /\ pre.scheduled_charging_mode = "DepartBy" /\ pre.off_peak_charging_enabled
    /\ cmds = <<>>

\* C5: a stop-charge command is issued exactly when none of rules 1-9 holds
\* and the battery is at 20 or more, the vehicle is Charging and the
\* scheduled start is set and lies after the instant of the cycle.
C5_StopChargeExactly ==
    Ran =>
        ( Issued("STOP_CHARGE") <=>
            /\ \A k \in 1..9 : ~TableCond(k, pre, now)
            /\ TableCond(10, pre, now) )

\* C6: when none of rules 1-10 holds, the optimizing branch runs (and, when
\* its computation returns, sends current, limit and schedule) if and only if
\* the mode is DepartBy with off-peak charging enabled; otherwise the cycle
\* issues nothing.
C6_OptimizeOrNoOp ==
    Ran /\ (\A k \in 1..10 : ~TableCond(k, pre, now)) =>
        IF TableCond(11, pre, now)
        THEN /\ rule = 11
             /\ pc = "done" => CmdNames(cmds) = TableCmdNames(11)
        ELSE /\ rule = 12
             /\ cmds = <<>>
             /\ vehicle = pre

----------------------------------------------------------------------------
(* The travel estimate, as the claims state it *)

\* the events that need a drive of more than 15 minutes
RelevantEvents(evs) ==
    { i \in 1..Len(evs) :
        HasUsableLocation(evs[i]) /\ get_directions(evs[i].route).time > 150 }

\* the distance of the farthest relevant event, 0 when there is none
FarthestDistance(evs) ==
    IF RelevantEvents(evs) = {} THEN 0
    ELSE LET i == CHOOSE i \in RelevantEvents(evs) :
                    \A j \in RelevantEvents(evs) :
                        get_directions(evs[j].route).distance
                            <= get_directions(evs[i].route).distance
         IN  get_directions(evs[i].route).distance

\* start_time - drive_minutes - 30 minutes
RequiredDeparture(evs, i) == evs[i].start - get_directions(evs[i].route).time - 300

\* the least required departure over all relevant events
EarliestRequiredDeparture(evs) ==
    LET i == CHOOSE i \in RelevantEvents(evs) :
                \A j \in RelevantEvents(evs) :
                    RequiredDeparture(evs, i) <= RequiredDeparture(evs, j)
    IN  RequiredDeparture(evs, i)

\* the cycle took the optimizing branch and its computation returned
Optimized == pc = "done" /\ rule = 11

\* C7 as stated: the limit is 94 from 120 miles on, the ramp value d * 20 /
\* 120 + 75 rounded to a nearest integer between 0 and 120 miles, and 75 at 0.
C7_RoundedRamp ==
    Optimized =>
        LET d == FarthestDistance(events)
            p == vehicle.charge_limit_soc
        IN  /\ d >= 1200 => p = 94
            /\ d > 0 /\ d < 1200 =>
                  /\ 60 * (p - 75) - d <= 30
                  /\ d - 60 * (p - 75) <= 30
            /\ d = 0 => p = 75

\* C7, amended: the limit is 94 from 120 miles on, the ramp value d * 20 /
\* 120 + 75 with its fraction dropped (not rounded) between 0 and 120 miles,
\* and 75 at 0; so 0 miles gives 75, 60 miles 85 and 120 miles 94.
C7_TruncatedRamp ==
    Optimized =>
        LET d == FarthestDistance(events)
            p == vehicle.charge_limit_soc
        IN  /\ d >= 1200 => p = 94
            /\ d > 0 /\ d < 1200 =>
                  /\ 60 * (p - 75) <= d
                  /\ d < 60 * (p - 74)
            /\ d = 0 => p = 75
            /\ d = 600 => p = 85
            /\ d = 1200 => p = 94

C7_Witness ==
    /\ Optimized
    /\ FarthestDistance(events) = 1000
    /\ vehicle.charge_limit_soc = 91

\* C8: the limit never decreases as the farthest distance grows (compared
\* with the limit of every distance up to MaxDistanceSteps + 20 tenths of a
\* mile, those just below 120 miles included), and every limit sent lies in
\* [75, 95).
C8_MonotoneBelow95 ==
    Optimized =>
        LET d == FarthestDistance(events)
            p == vehicle.charge_limit_soc
        IN  /\ 75 <= p /\ p < 95
            /\ cmds[3] = Cmd("CHANGE_CHARGE_LIMIT", <<p>>)
            /\ \A e \in 0..(MaxDistanceSteps + 20) :
                  /\ e <= d => ChargeLimitSoc(e) <= p
                  /\ e >= d => ChargeLimitSoc(e) >= p

C8_Witness ==
    /\ Optimized
    /\ FarthestDistance(events) = 1199
    /\ vehicle.charge_limit_soc = 94
    /\ Len(events) = 2

\* C9: with at least one relevant event, the departure used for the schedule
\* is the least required departure over all relevant events.
C9_EarliestOfAllEvents ==
    Optimized /\ RelevantEvents(events) # {} =>
        vehicle.scheduled_departure_time_minutes =
            Min2(QuantizedMinutes(
                    astimezone(EarliestRequiredDeparture(events), TIME_ZONE)),
                 600)

\* the local minute of the day of the departure instant
DepartureMinute ==
    LET t == EarliestRequiredDeparture(events)
    IN  ((t + UtcOffset(TIME_ZONE, t)) % 14400) \div 10

\* C10: the departure minutes sent are min(m - (m mod 15), 600) for the local
\* minute of the day m of the departure instant, hence a multiple of 15 in
\* [0, 600]; without a relevant event the default is sent, which is one too.
C10_QuantizedDeparture ==
    Optimized =>
        LET q == vehicle.scheduled_departure_time_minutes
        IN  /\ q % 15 = 0 /\ 0 <= q /\ q <= 600
            /\ cmds[4].name = "SCHEDULED_DEPARTURE" /\ cmds[4].args[1] = q
            /\ RelevantEvents(events) # {} =>
                  q = Min2(DepartureMinute - (DepartureMinute % 15), 600)

C10_Witness ==
    /\ Optimized
    /\ RelevantEvents(events) # {}
    /\ DepartureMinute % 15 = 7
    /\ DepartureMinute < 600
    /\ vehicle.scheduled_departure_time_minutes = DepartureMinute - 7

----------------------------------------------------------------------------
(* The off-peak end time *)

\* p is an upward crossing of the lower band: below it, the next point not
UpwardCrossing(f, p) ==
    /\ p \in 1..(Len(f) - 1)
    /\ BelowLowerBand(f, f[p].load_forecast)
    /\ ~BelowLowerBand(f, f[p + 1].load_forecast)

FutureCrossings(f, t) ==
    { p \in 1..Len(f) : UpwardCrossing(f, p) /\ f[p].interval_start_utc >= t }

FloorTo15(m) == (m \div 15) * 15

\* C11: the off-peak end chosen by a FullOptimize pass is the earliest upward
\* crossing of the lower band at or after now, never a point before now nor
\* the last point of the series, and the target off-peak end is the local
\* minute of day of that instant rounded down to a multiple of 15.
C11_EarliestFutureCrossing ==
    Optimized =>
        \E p \in FutureCrossings(df, now) :
            /\ \A q \in FutureCrossings(df, now) :
                  df[p].interval_start_utc <= df[q].interval_start_utc
            /\ p # Len(df)
            /\ df[p].interval_start_utc >= now
            /\ vehicle.off_peak_hours_end_time =
                  FloorTo15(MinuteOfDay(astimezone(df[p].interval_start_utc,
                                                   TIME_ZONE)))

\* a pass that had a crossing before now to pass over, and chose a later one
\* whose minute of day is not a multiple of 15
C11_Witness ==
    /\ Optimized
    /\ \E q \in 1..Len(df) :
          UpwardCrossing(df, q) /\ df[q].interval_start_utc < now
    /\ \E p \in FutureCrossings(df, now) :
          /\ p > 1
          /\ MinuteOfDay(astimezone(df[p].interval_start_utc, TIME_ZONE)) % 15 # 0

\* C12: a pass that reaches the optimizing branch with no upward crossing of
\* the lower band at or after now raises: the off-peak end time of the record
\* is left as it was and no command is issued.
C12_NoCrossingRaises ==
    (Ran /\ rule = 11 /\ FutureCrossings(df, now) = {}) =>
        /\ pc = "raised"
        /\ exc = "ValueError"
        /\ cmds = <<>>
        /\ vehicle.off_peak_hours_end_time = pre.off_peak_hours_end_time

\* such a pass over a series whose only crossing is already past
C12_Witness ==
    /\ pc = "raised"
    /\ rule = 11
    /\ FutureCrossings(df, now) = {}
    /\ \E q \in 1..Len(df) : UpwardCrossing(df, q)

----------------------------------------------------------------------------
(* The target current *)

SentCurrent(a) == \E i \in 1..Len(cmds) : cmds[i] = Cmd("CHARGING_AMPS", <<a>>)

\* round(x / 2) as the program's language rounds: to the nearest integer, a
\* half to the even neighbour (round(7.5) = 8, round(6.5) = 6)
RoundHalf(x) ==
    IF x % 2 = 0 THEN x \div 2
    ELSE IF ((x - 1) \div 2) % 2 = 0 THEN (x - 1) \div 2 ELSE (x + 1) \div 2

\* C13 as stated: a FullOptimize pass on a vehicle that is not Charging sends
\* round(0.5 * max_current) when max_current > 12 and the load at now is at
\* most the mean, max_current otherwise, for odd max_current too, with limit
\* 94 for one relevant event 130 miles away.
C13_RoundedHalf ==
    (Optimized /\ pre.charging_state # "Charging") =>
        LET max == pre.charge_current_request_max
            target == IF max > 12 /\ CurrentLoadAtMostMean(df, now)
                      THEN RoundHalf(max) ELSE max
        IN  /\ vehicle.charge_current_request = target
            /\ SentCurrent(target)
            /\ FarthestDistance(events) = 1300 => vehicle.charge_limit_soc = 94

\* C13, amended: the target is int(0.5 * max_current), the half with its
\* fraction dropped (7 for 15), when max_current > 12 and the load at now is
\* at most the mean, max_current otherwise; one relevant event 130 miles away
\* gives limit 94.
C13_TruncatedHalf ==
    (Optimized /\ pre.charging_state # "Charging") =>
        LET max == pre.charge_current_request_max
            target == IF max > 12 /\ CurrentLoadAtMostMean(df, now)
                      THEN max \div 2 ELSE max
        IN  /\ vehicle.charge_current_request = target
            /\ 2 * target <= max \/ target = max
            /\ SentCurrent(target)
            /\ FarthestDistance(events) = 1300 => vehicle.charge_limit_soc = 94

\* Scenario D on a 15 A circuit: load at the mean, limit 94, current 7
C13_Witness ==
    /\ Optimized
    /\ pre.charging_state = "Stopped"
    /\ pre.charge_current_request_max = 15
    /\ df = ForecastAtMean
    /\ FarthestDistance(events) = 1300
    /\ vehicle.charge_limit_soc = 94
    /\ SentCurrent(7)

\* the instant of the earliest upward crossing at or after t
OffPeakEnd(f, t) ==
    LET p == CHOOSE p \in FutureCrossings(f, t) :
                \A q \in FutureCrossings(f, t) :
                    f[p].interval_start_utc <= f[q].interval_start_utc
    IN  f[p].interval_start_utc

\* C14: a FullOptimize pass on a Charging vehicle, with completion = now +
\* time_to_full_charge, sends current + 1 when completion is after the
\* scheduled departure and current < max; otherwise current - 1 when
\* completion is before the off-peak end and current > 5; otherwise the
\* current as it is.  The increment is tested first and the change is +1, -1
\* or 0.
C14_StepByOne ==
    (Optimized /\ pre.charging_state = "Charging") =>
        LET completion == now + pre.time_to_full_charge
            cur == pre.charge_current_request
            target ==
                IF completion > pre.scheduled_departure_time
                   /\ cur < pre.charge_current_request_max
                THEN cur + 1
                ELSE IF completion < OffPeakEnd(df, now) /\ cur > 5
                     THEN cur - 1
                     ELSE cur
        IN  /\ vehicle.charge_current_request = target
            /\ SentCurrent(target)
            /\ vehicle.charge_current_request - cur \in {-1, 0, 1}

\* both tests hold and the current went up (Scenario E)
C14_Witness ==
    /\ Optimized
    /\ pre.charging_state = "Charging"
    /\ now + pre.time_to_full_charge > pre.scheduled_departure_time
    /\ now + pre.time_to_full_charge < OffPeakEnd(df, now)
    /\ pre.charge_current_request > 5
    /\ pre.charge_current_request < pre.charge_current_request_max
    /\ SentCurrent(pre.charge_current_request + 1)

----------------------------------------------------------------------------
(* The pass run twice *)

ActionOf(k) ==
    IF k \in {4, 7} THEN "StartCharge"
    ELSE IF k \in {5, 8} THEN "SetCurrentOnly"
    ELSE IF k = 10 THEN "StopCharge"
    ELSE IF k = 11 THEN "FullOptimize"
    ELSE "NoOp"

\* C16: a second pass over the same record, forecast, events and instant,
\* with nothing read from the vehicle in between, takes the same action as
\* the first and sends the same targets (current, limit, departure minutes,
\* off-peak end minutes).
C16_SecondPassSame ==
    (cycle = 2 /\ Ran) =>
        /\ pc = "done"
        /\ ActionOf(rule) = ActionOf(prev.rule)
        /\ cmds = prev.cmds

----------------------------------------------------------------------------
(* Failures *)

LookupFailed(event) ==
    HasUsableLocation(event) /\ event.route.kind \in {"raise", "empty"}

\* C17: in a FullOptimize pass every failed distance lookup (the request
\* raised, or no route came back) gives the event distance 0 and drive time
\* 0 and nothing propagates: the event is not relevant, limit and departure
\* come from the other events, and the pass goes on.
C17_LookupFailureDegrades ==
    (Ran /\ rule = 11 /\ \E i \in 1..Len(events) : LookupFailed(events[i])) =>
        /\ exc # "IndexError"
        /\ \A i \in 1..Len(events) :
              LookupFailed(events[i]) =>
                  events[i].distance = 0 /\ events[i].time = 0
        /\ pc = "done" =>
              /\ \A i \in 1..Len(events) :
                    LookupFailed(events[i]) => i \notin RelevantEvents(events)
              /\ vehicle.charge_limit_soc
                    = ChargeLimitSoc(FarthestDistance(events))

\* C18: no failure inside a cycle (no vehicle returned, a field that is None,
\* no off-peak crossing, a failed command) ends the periodic run.
C18_RunNeverEnds == pc # "exited"

\* C19: a cycle that starts charging, sets the current, stops charging or
\* optimizes ends with the settle delay and then the re-read of the vehicle,
\* in that order and after all of its commands; a cycle that does nothing
\* neither waits nor reads again.
C19_SettleThenReread ==
    /\ (pc = "done" /\ ActionOf(rule) # "NoOp") =>
          /\ Len(cmds) >= 3
          /\ cmds[Len(cmds) - 1] = Cmd("sleep", <<5>>)
          /\ cmds[Len(cmds)] = Cmd("get_vehicle_status", <<>>)
          /\ \A i \in 1..(Len(cmds) - 2) :
                cmds[i].name \notin {"sleep", "get_vehicle_status"}
    /\ (Ran /\ ActionOf(rule) = "NoOp") =>
          ~Issued("sleep") /\ ~Issued("get_vehicle_status")

C19_Witness ==
    /\ pc = "done"
    /\ rule = 10
    /\ Len(cmds) = 4
    /\ cmds[2].name = "STOP_CHARGE"
    /\ cmds[3].name = "sleep"

----------------------------------------------------------------------------
(* The order of the commands *)

IsVehicleCmd(c) == c.name \notin {"sleep", "get_vehicle_status"}

\* the commands sent to the vehicle in this cycle, in order
VehicleCmds == SelectSeq(cmds, IsVehicleCmd)

\* C21: whenever commands are issued the wake-up is the first of them and is
\* issued once; a start of charging issues set-current then start-charge, a
\* stop issues only stop-charge, an optimization issues set-current, set-limit
\* and set-schedule and neither start nor stop; the optimization's commands
\* carry the targets of the finished computation, and a computation that
\* fails has sent nothing, not even the wake-up.
C21_WakeUpFirstFixedOrder ==
    /\ (Ran /\ cmds # <<>>) =>
          /\ cmds[1] = Cmd("wake_up", <<>>)
          /\ \A i \in 2..Len(cmds) : cmds[i].name # "wake_up"
    /\ (pc = "done" /\ ActionOf(rule) = "StartCharge") =>
          CmdNames(VehicleCmds) = <<"wake_up", "CHARGING_AMPS", "START_CHARGE">>
    /\ (pc = "done" /\ ActionOf(rule) = "StopCharge") =>
          CmdNames(VehicleCmds) = <<"wake_up", "STOP_CHARGE">>
    /\ Optimized =>
          /\ VehicleCmds =
                <<Cmd("wake_up", <<>>),
                  Cmd("CHARGING_AMPS", <<vehicle.charge_current_request>>),
                  Cmd("CHANGE_CHARGE_LIMIT", <<vehicle.charge_limit_soc>>),
                  Cmd("SCHEDULED_DEPARTURE",
                      <<vehicle.scheduled_departure_time_minutes,
                        vehicle.off_peak_hours_end_time>>)>>
          /\ ~Issued("START_CHARGE") /\ ~Issued("STOP_CHARGE")
    /\ (Ran /\ rule = 11 /\ pc # "done") => cmds = <<>>

\* an optimization that changed limit and off-peak end and sent the new ones
C21_Witness ==
    /\ Optimized
    /\ Len(VehicleCmds) = 4
    /\ vehicle.charge_limit_soc # pre.charge_limit_soc
    /\ vehicle.off_peak_hours_end_time # pre.off_peak_hours_end_time
    /\ cmds[3] = Cmd("CHANGE_CHARGE_LIMIT", <<vehicle.charge_limit_soc>>)
    /\ cmds[4].args[2] = vehicle.off_peak_hours_end_time

====
